---------------------------- MODULE Spec2Model ----------------------------
(***************************************************************************)
(* Model of the Civil Engineering E-Commerce API (src/main.py) and its     *)
(* payload schemas (src/schemas.py).                                       *)
(*                                                                         *)
(* Representation.                                                         *)
(*   - Searchable text (title, description, category, q, identifiers,      *)
(*     e-mail addresses) is a sequence of one-character strings, so that   *)
(*     regular-expression search, case folding and ObjectId parsing are    *)
(*     computed character by character.                                    *)
(*   - A JSON field of a request payload is a tagged value: Missing (key   *)
(*     absent), Null (JSON null) or Val(x).  Optional[...] fields of a     *)
(*     stored document are Null or Val(x).                                 *)
(*   - Money is an integer number of 1/200 (half-cent) units.  The floats  *)
(*     that take part in arithmetic (order item prices) are multiples of   *)
(*     1/8 = 25 units: such binary fractions are exact in IEEE-754, so     *)
(*     the float sum of create_order is exact and round(x, 2) is the       *)
(*     correctly rounded (ties-to-even) decimal of the exact value.        *)
(*   - A bson.ObjectId is the natural number its 12 bytes encode; str()    *)
(*     renders it as 24 lowercase hexadecimal characters.                  *)
(***************************************************************************)
EXTENDS Integers, Sequences, FiniteSets, TLC

VARIABLES
    db,          \* module-level `db`: "Available" or "Unavailable" (None)
    product,     \* collection "product": documents in insertion order
    order,       \* collection "order": documents in insertion order
    nextOid,     \* next ObjectId the store driver generates
    resp,        \* the last request served and its HTTP response
    created,     \* the (payload, id) pairs answered 201 by POST /api/products
    seedPc,      \* per concurrent seed request: position in seed_products
    seedCount,   \* per concurrent seed request: local variable `count`
    seedResult   \* per concurrent seed request: returned `inserted` (-1: none yet)

vars == <<db, product, order, nextOid, resp, created, seedPc, seedCount, seedResult>>

----------------------------------------------------------------------------
(* Bounds of the exploration *)

MaxCreates == 2      \* products created by POST /api/products
MaxOrders == 1       \* orders created by POST /api/orders
NumSeeders == 2      \* number of concurrent seed requests in SpecConc

Seeders == 1..NumSeeders

----------------------------------------------------------------------------
(* Tagged JSON values *)

Missing == [tag |-> "missing"]
Null == [tag |-> "null"]
Val(x) == [tag |-> "val", v |-> x]

IsVal(f) == f.tag = "val"

----------------------------------------------------------------------------
(* Characters *)

UpperLetters ==
    <<"A","B","C","D","E","F","G","H","I","J","K","L","M",
      "N","O","P","Q","R","S","T","U","V","W","X","Y","Z">>
LowerLetters ==
    <<"a","b","c","d","e","f","g","h","i","j","k","l","m",
      "n","o","p","q","r","s","t","u","v","w","x","y","z">>

UpperSet == { UpperLetters[i] : i \in 1..26 }

FoldMap == [c \in UpperSet |-> LowerLetters[CHOOSE i \in 1..26 : UpperLetters[i] = c]]

\* Case folding of one character (the "i" option of $regex, bytes.fromhex)
Lower(c) == IF c \in UpperSet THEN FoldMap[c] ELSE c

----------------------------------------------------------------------------
(* bson.ObjectId *)

OidLen == 24
HexDigits == <<"0","1","2","3","4","5","6","7","8","9","a","b","c","d","e","f">>

HexSet == { HexDigits[i] : i \in 1..16 }

IsHexChar(c) == Lower(c) \in HexSet
HexDigitValue(c) == (CHOOSE i \in 1..16 : HexDigits[i] = Lower(c)) - 1

RECURSIVE HexString(_, _)
\* the w low-order hexadecimal digits of n, most significant first
HexString(n, w) ==
    IF w = 0 THEN <<>>
    ELSE Append(HexString(n \div 16, w - 1), HexDigits[(n % 16) + 1])

RECURSIVE HexValue(_)
HexValue(s) ==
    IF s = <<>> THEN 0
    ELSE HexValue(SubSeq(s, 1, Len(s) - 1)) * 16 + HexDigitValue(s[Len(s)])

\* str(ObjectId)
OidToStr(oid) == HexString(oid, OidLen)

\* variant: the length of the string is not checked
OidValid_AnyLength(s) == \A i \in 1..Len(s) : IsHexChar(s[i])

\* ObjectId(s) raises InvalidId unless s is 24 hexadecimal characters
OidValid(s) == Len(s) = OidLen /\ \A i \in 1..Len(s) : IsHexChar(s[i])

\* ObjectId(s) for a valid s
OidParse(s) == HexValue(s)

----------------------------------------------------------------------------
(* Documents *)

None == <<>>

\* Python truthiness of a document: None and {} are falsy
Falsy(doc) == DOMAIN doc = {}

\* collection.find_one({"_id": oid})
FindOne(coll, oid) ==
    IF \E i \in 1..Len(coll) : coll[i]["_id"] = oid
    THEN coll[CHOOSE i \in 1..Len(coll) :
                 /\ coll[i]["_id"] = oid
                 /\ \A j \in 1..(i - 1) : coll[j]["_id"] # oid]
    ELSE None

serialize_doc(doc) ==
    IF Falsy(doc) THEN doc
    ELSE IF "_id" \in DOMAIN doc
         THEN [k \in (DOMAIN doc \ {"_id"}) \cup {"id"} |->
                  IF k = "id" THEN OidToStr(doc["_id"]) ELSE doc[k]]
         ELSE doc

\* the document `data` with the identifier the store assigns on insert
WithId(data, oid) ==
    [k \in DOMAIN data \cup {"_id"} |-> IF k = "_id" THEN oid ELSE data[k]]

----------------------------------------------------------------------------
(* Schemas (pydantic models of src/schemas.py) *)

\* `str = Field(...)`: required, must be a string; no length constraint
RequiredStr(f) == IsVal(f)

\* variant: the constraint ge=0 is left out
RequiredNonNegFloat_NoBound(f) == IsVal(f)

\* `float = Field(..., ge=0)`
RequiredNonNegFloat(f) == IsVal(f) /\ f.v >= 0

\* `Optional[str] = Field(None)`: absent and null both become None
OptionalOrNone(f) == IF IsVal(f) THEN f ELSE Null

\* variant: the default of the field is False
BoolDefaultTrue_False(f) == IF IsVal(f) THEN f.v ELSE FALSE

\* `bool = Field(True)`: absent takes the default, null is rejected
BoolDefaultTrue(f) == IF IsVal(f) THEN f.v ELSE TRUE

\* Product(**payload) raises no ValidationError
ProductValid(p) ==
    /\ RequiredStr(p.title)
    /\ RequiredNonNegFloat(p.price)
    /\ RequiredStr(p.category)
    /\ p.in_stock.tag # "null"

\* the validated Product model, as dumped for persistence
ProductModel(p) ==
    [ title       |-> p.title.v,
      description |-> OptionalOrNone(p.description),
      price       |-> p.price.v,
      category    |-> p.category.v,
      image       |-> OptionalOrNone(p.image),
      in_stock    |-> BoolDefaultTrue(p.in_stock) ]

\* OrderItem: product_id and title required strings, price >= 0, quantity >= 1
OrderItemValid(it) ==
    /\ RequiredStr(it.product_id)
    /\ RequiredStr(it.title)
    /\ RequiredNonNegFloat(it.price)
    /\ IsVal(it.quantity) /\ it.quantity.v >= 1

OrderItemModel(it) ==
    [ product_id |-> it.product_id.v,
      title      |-> it.title.v,
      price      |-> it.price.v,
      quantity   |-> it.quantity.v ]

\* EmailStr: one "@" with a non-empty local part and a dotted domain
EmailSyntaxOk(s) ==
    \E at \in 2..(Len(s) - 1) :
        /\ s[at] = "@"
        /\ \A i \in 1..Len(s) : s[i] = "@" => i = at
        /\ \E dot \in (at + 2)..(Len(s) - 1) : s[dot] = "."

EmailValid(f) == IsVal(f) /\ EmailSyntaxOk(f.v)

\* variant: items is given min_length=1
OrderValidButSubtotal_NonEmptyItems(p) ==
    /\ RequiredStr(p.customer_name)
    /\ EmailValid(p.customer_email)
    /\ RequiredStr(p.shipping_address)
    /\ IsVal(p.items)
    /\ p.items.v # <<>>
    /\ \A i \in 1..Len(p.items.v) : OrderItemValid(p.items.v[i])

\* the fields of Order other than subtotal
OrderValidButSubtotal(p) ==
    /\ RequiredStr(p.customer_name)
    /\ EmailValid(p.customer_email)
    /\ RequiredStr(p.shipping_address)
    /\ IsVal(p.items)
    /\ \A i \in 1..Len(p.items.v) : OrderItemValid(p.items.v[i])

\* Order(**payload) raises no ValidationError
OrderValid(p) ==
    /\ OrderValidButSubtotal(p)
    /\ RequiredNonNegFloat(p.subtotal)

OrderModel(p) ==
    [ customer_name    |-> p.customer_name.v,
      customer_email   |-> p.customer_email.v,
      customer_phone   |-> OptionalOrNone(p.customer_phone),
      shipping_address |-> p.shipping_address.v,
      items            |-> [i \in 1..Len(p.items.v) |-> OrderItemModel(p.items.v[i])],
      subtotal         |-> p.subtotal.v,
      notes            |-> OptionalOrNone(p.notes) ]

----------------------------------------------------------------------------
(* Order total *)

\* round(x, 2) of a float holding exactly x/200: the nearest multiple of
\* 0.01, a tie (x odd) going to the even hundredth
Round2(x) ==
    IF x % 2 = 0 THEN x
    ELSE IF ((x - 1) \div 2) % 2 = 0 THEN x - 1 ELSE x + 1

RECURSIVE SubtotalLoop(_, _, _)
\* the loop of create_order: `subtotal += item.price * item.quantity`
SubtotalLoop(items, i, subtotal) ==
    IF i > Len(items) THEN subtotal
    ELSE SubtotalLoop(items, i + 1, subtotal + items[i].price * items[i].quantity)

\* variant: the sum is stored without round(..., 2)
ComputedSubtotal_NoRound(items) == SubtotalLoop(items, 1, 0)

\* the value create_order assigns to payload.subtotal
ComputedSubtotal(items) == Round2(SubtotalLoop(items, 1, 0))

----------------------------------------------------------------------------
(* Document store adapter (database.py) *)

\* create_document(collection, model): the collection after the insert
InsertOne(coll, data, oid) == Append(coll, WithId(data, oid))

RECURSIVE InsertMany_SameId(_, _, _)
\* variant: every document of the batch gets the same identifier
InsertMany_SameId(coll, docs, oid) ==
    IF docs = <<>> THEN coll
    ELSE InsertMany_SameId(InsertOne(coll, Head(docs), oid), Tail(docs), oid)

RECURSIVE InsertMany(_, _, _)
\* insert_many(docs): consecutive fresh identifiers, in order
InsertMany(coll, docs, oid) ==
    IF docs = <<>> THEN coll
    ELSE InsertMany(InsertOne(coll, Head(docs), oid), Tail(docs), oid + 1)

\* variant: the count is taken with a filter that matches nothing
CountDocuments_Zero(coll) == 0

\* count_documents({})
CountDocuments(coll) == Len(coll)

----------------------------------------------------------------------------
(* $regex matching, for patterns made of literals, ".", "(" and ")" *)

RECURSIVE ParenDepthOk(_, _, _)
ParenDepthOk(p, i, depth) ==
    IF i > Len(p) THEN depth = 0
    ELSE IF p[i] = "(" THEN ParenDepthOk(p, i + 1, depth + 1)
    ELSE IF p[i] = ")" THEN depth > 0 /\ ParenDepthOk(p, i + 1, depth - 1)
    ELSE ParenDepthOk(p, i + 1, depth)

\* the pattern compiles: its parentheses balance
RegexValid(p) == ParenDepthOk(p, 1, 0)

IsParen(c) == c = "(" \/ c = ")"
NotParen(c) == ~IsParen(c)

\* a group without alternation or quantifier is the concatenation of its atoms
RegexAtoms(p) == SelectSeq(p, NotParen)

\* one atom against one character, with option "i"
AtomMatches(a, c) == a = "." \/ a = c \/ Lower(a) = Lower(c)

\* unanchored search of a valid pattern in a text
RegexSearch(p, text) ==
    LET atoms == RegexAtoms(p)
    IN  \E off \in 0..(Len(text) - Len(atoms)) :
            \A i \in 1..Len(atoms) : AtomMatches(atoms[i], text[off + i])

\* {field: {"$regex": q, "$options": "i"}}: a null field never matches
RegexFieldMatches(q, f) == IsVal(f) /\ RegexSearch(q, f.v)

\* the filter list_products builds: `if category:` and `if q:` skip None and ""
ProductFilter(category, q) ==
    [ category |-> IF IsVal(category) /\ category.v # <<>> THEN category ELSE Null,
      regex    |-> IF IsVal(q) /\ q.v # <<>> THEN q ELSE Null ]

FilterMatches(filt, doc) ==
    /\ IsVal(filt.category) => doc.category = filt.category.v
    /\ IsVal(filt.regex) =>
          \/ RegexSearch(filt.regex.v, doc.title)
          \/ RegexFieldMatches(filt.regex.v, doc.description)
          \/ RegexSearch(filt.regex.v, doc.category)

\* the store rejects a filter whose $regex does not compile
FilterRejected(filt) == IsVal(filt.regex) /\ ~RegexValid(filt.regex.v)

\* get_documents(collection, filt)
get_documents(coll, filt) == SelectSeq(coll, LAMBDA d : FilterMatches(filt, d))

----------------------------------------------------------------------------
(* The sample documents of seed_products.  The non-breaking hyphen of the   *)
(* source text is the one-character string written "U+2011".               *)

samples ==
  <<
    [ title       |-> <<"R","e","a","d","y","U+2011","M","i","x"," ","C","o","n","c",
                       "r","e","t","e"," ","(","M","2","5",")">>,
      description |-> Val(<<"P","r","e","m","i","u","m"," ","g","r","a","d","e",
                           " ","M","2","5"," ","r","e","a","d","y","U+2011","m","i",
                           "x"," ","c","o","n","c","r","e","t","e"," ","s","u",
                           "i","t","a","b","l","e"," ","f","o","r"," ","f","o",
                           "u","n","d","a","t","i","o","n","s"," ","a","n","d",
                           " ","s","l","a","b","s",".">>),
      price       |-> 21800,
      category    |-> <<"C","o","n","c","r","e","t","e">>,
      image       |-> Val("https://images.unsplash.com/photo-1591459034474-3c73e6a4c5a3?q=80&w=1200&auto=format&fit=crop"),
      in_stock    |-> TRUE ],
    [ title       |-> <<"T","M","T"," ","S","t","e","e","l"," ","R","e","b","a",
                       "r","s"," ","1","2","m","m">>,
      description |-> Val(<<"H","i","g","h"," ","s","t","r","e","n","g","t","h",
                           " ","c","o","r","r","o","s","i","o","n","U+2011","r","e",
                           "s","i","s","t","a","n","t"," ","T","M","T"," ","b",
                           "a","r","s"," ","f","o","r"," ","s","t","r","u","c",
                           "t","u","r","a","l"," ","r","e","i","n","f","o","r",
                           "c","e","m","e","n","t",".">>),
      price       |-> 440,
      category    |-> <<"S","t","e","e","l">>,
      image       |-> Val("https://images.unsplash.com/photo-1607040327302-8cfb0f2f03b2?q=80&w=1200&auto=format&fit=crop"),
      in_stock    |-> TRUE ],
    [ title       |-> <<"C","r","u","s","h","e","d"," ","S","t","o","n","e"," ",
                       "A","g","g","r","e","g","a","t","e"," ","2","0","m","m">>,
      description |-> Val(<<"W","a","s","h","e","d"," ","a","n","g","u","l","a",
                           "r"," ","a","g","g","r","e","g","a","t","e"," ","i",
                           "d","e","a","l"," ","f","o","r"," ","R","C","C"," ",
                           "a","n","d"," ","r","o","a","d"," ","b","a","s","e",
                           " ","l","a","y","e","r","s",".">>),
      price       |-> 7000,
      category    |-> <<"A","g","g","r","e","g","a","t","e","s">>,
      image       |-> Val("https://images.unsplash.com/photo-1566577739112-5180d4bf939b?q=80&w=1200&auto=format&fit=crop"),
      in_stock    |-> TRUE ],
    [ title       |-> <<"P","o","r","t","l","a","n","d"," ","P","o","z","z","o",
                       "l","a","n","a"," ","C","e","m","e","n","t"," ","(","5",
                       "0","k","g",")">>,
      description |-> Val(<<"L","o","w","U+2011","h","e","a","t"," ","P","P","C"," ",
                           "c","e","m","e","n","t"," ","w","i","t","h"," ","s",
                           "u","p","e","r","i","o","r"," ","d","u","r","a","b",
                           "i","l","i","t","y"," ","a","n","d"," ","w","o","r",
                           "k","a","b","i","l","i","t","y",".">>),
      price       |-> 1500,
      category    |-> <<"C","e","m","e","n","t">>,
      image       |-> Val("https://images.unsplash.com/photo-1621847468514-f5f8d7c94605?q=80&w=1200&auto=format&fit=crop"),
      in_stock    |-> TRUE ]
  >>

----------------------------------------------------------------------------
(* Request inputs explored *)

FirstOid == 10

tPipe == <<"P","i","p","e">>
tFineSand == <<"F","i","n","e"," ","s","a","n","d">>
tSteel == <<"S","t","e","e","l">>
tAnn == <<"A","n","n">>
tMail == <<"a","@","b",".","c">>
tNoMail == <<"a","b",".","c">>
tRoad == <<"1"," ","R","d">>

ProductPayload(title, description, price, category, image, in_stock) ==
    [ title |-> title, description |-> description, price |-> price,
      category |-> category, image |-> image, in_stock |-> in_stock ]

ValidProductPayloads ==
    { ProductPayload(Val(tPipe), Missing, Val(2500), Val(tSteel), Missing, Missing),
      ProductPayload(Val(<<>>), Val(tFineSand), Val(0), Val(<<>>),
                     Val("http://img/sand.png"), Val(FALSE)) }

InvalidProductPayloads ==
    { ProductPayload(Val(tPipe), Missing, Val(-200), Val(tSteel), Missing, Missing),
      ProductPayload(Missing, Missing, Val(2500), Val(tSteel), Missing, Missing),
      ProductPayload(Val(tPipe), Missing, Missing, Val(tSteel), Missing, Missing),
      ProductPayload(Val(tPipe), Missing, Val(2500), Missing, Missing, Missing) }

ProductPayloads == ValidProductPayloads \cup InvalidProductPayloads

ItemPayload(price, quantity) ==
    [ product_id |-> Val(OidToStr(FirstOid)), title |-> Val(tPipe),
      price |-> price, quantity |-> quantity ]

\* 10.00 x 2 + 0.375 x 1 = 20.375
ItemsTie == <<ItemPayload(Val(2000), Val(2)), ItemPayload(Val(75), Val(1))>>

OrderPayload(email, items, subtotal) ==
    [ customer_name |-> Val(tAnn), customer_email |-> email,
      customer_phone |-> Missing, shipping_address |-> Val(tRoad),
      items |-> items, subtotal |-> subtotal, notes |-> Missing ]

OrderPayloads ==
    { OrderPayload(Val(tMail), Val(ItemsTie), Val(0)),
      OrderPayload(Val(tMail), Val(ItemsTie), Val(199998)),
      OrderPayload(Val(tMail), Val(<<>>), Val(1000)),
      OrderPayload(Val(tMail), Val(ItemsTie), Val(-200)),
      OrderPayload(Val(tMail), Val(ItemsTie), Missing),
      OrderPayload(Val(tNoMail), Val(ItemsTie), Val(0)),
      OrderPayload(Val(tMail), Val(<<ItemPayload(Val(2000), Val(0))>>), Val(0)) }

\* (category, q) pairs of GET /api/products
ListQueries ==
    { <<Missing, Missing>>,
      <<Val(<<>>), Val(<<>>)>>,
      <<Missing, Val(<<"s","t">>)>>,
      <<Val(tSteel), Val(<<"R","E","B","A","R">>)>>,
      <<Missing, Val(<<"z","z">>)>>,
      <<Missing, Val(<<".">>)>>,
      <<Missing, Val(<<"(","M","2","5",")">>)>>,
      <<Missing, Val(<<"(","5","0","k","g">>)>> }

UpperHex(s) ==
    [i \in 1..Len(s) |->
        IF \E k \in 1..26 : LowerLetters[k] = s[i]
        THEN UpperLetters[CHOOSE k \in 1..26 : LowerLetters[k] = s[i]]
        ELSE s[i]]

\* identifier strings a client may send
ProductIds ==
    { OidToStr(FirstOid),
      OidToStr(FirstOid + 1),
      UpperHex(OidToStr(FirstOid)),
      <<"n","o","t","-","a","n","-","i","d">>,
      SubSeq(OidToStr(FirstOid), 2, OidLen),
      [OidToStr(FirstOid) EXCEPT ![1] = "g"] }

-----
(* Initial state: process start-up with an empty database *)

NoResponse == [op |-> "none", req |-> None, status |-> 0, body |-> None]

Response(op, req, status, body) ==
    [op |-> op, req |-> req, status |-> status, body |-> body]

Init ==
    /\ db \in {"Available", "Unavailable"}
    /\ product = <<>>
    /\ order = <<>>
    /\ nextOid = FirstOid
    /\ resp = NoResponse
    /\ created = {}
    /\ seedPc = [s \in Seeders |-> "start"]
    /\ seedCount = [s \in Seeders |-> 0]
    /\ seedResult = [s \in Seeders |-> -1]

seedVars == <<seedPc, seedCount, seedResult>>

----------------------------------------------------------------------------
(* Handlers *)

\* the body of GET /api/products when the store answers
ListBody(category, q) ==
    LET docs == get_documents(product, ProductFilter(category, q))
    IN  [i \in 1..Len(docs) |-> serialize_doc(docs[i])]

\* GET /api/products
list_products(category, q) ==
    /\ resp' =
         IF db = "Unavailable"
         THEN Response("list_products", <<category, q>>, 200, <<>>)
         ELSE IF FilterRejected(ProductFilter(category, q))
         THEN Response("list_products", <<category, q>>, 500, None)
         ELSE Response("list_products", <<category, q>>, 200, ListBody(category, q))
    /\ UNCHANGED <<db, product, order, nextOid, created, seedVars>>

\* variant: the identifier is parsed before the availability check
GetProductResult_IdFirst(product_id) ==
    IF ~OidValid(product_id) THEN [status |-> 400, body |-> None]
    ELSE IF db = "Unavailable" THEN [status |-> 500, body |-> None]
    ELSE LET doc == FindOne(product, OidParse(product_id))
         IN  IF Falsy(doc) THEN [status |-> 404, body |-> None]
             ELSE [status |-> 200, body |-> serialize_doc(doc)]

\* status and body of GET /api/products/{product_id} in the current state
GetProductResult(product_id) ==
    IF db = "Unavailable" THEN [status |-> 500, body |-> None]
    ELSE IF ~OidValid(product_id) THEN [status |-> 400, body |-> None]
    ELSE LET doc == FindOne(product, OidParse(product_id))
         IN  IF Falsy(doc) THEN [status |-> 404, body |-> None]
             ELSE [status |-> 200, body |-> serialize_doc(doc)]

\* GET /api/products/{product_id}
get_product(product_id) ==
    /\ resp' = Response("get_product", product_id,
                        GetProductResult(product_id).status,
                        GetProductResult(product_id).body)
    /\ UNCHANGED <<db, product, order, nextOid, created, seedVars>>

\* POST /api/products
create_product(payload) ==
    IF ~ProductValid(payload)
    THEN /\ resp' = Response("create_product", payload, 422, None)
         /\ UNCHANGED <<db, product, order, nextOid, created, seedVars>>
    ELSE IF db = "Unavailable"
    THEN /\ resp' = Response("create_product", payload, 500, None)
         /\ UNCHANGED <<db, product, order, nextOid, created, seedVars>>
    ELSE /\ Cardinality(created) < MaxCreates
         /\ product' = InsertOne(product, ProductModel(payload), nextOid)
         /\ nextOid' = nextOid + 1
         /\ LET product_id == OidToStr(nextOid)
                doc == FindOne(product', OidParse(product_id))
            IN  /\ resp' = Response("create_product", payload, 201, serialize_doc(doc))
                /\ created' = created \cup
                      {[payload |-> payload, id |-> serialize_doc(doc)["id"]]}
         /\ UNCHANGED <<db, order, seedVars>>

\* POST /api/products/seed
seed_products ==
    IF db = "Unavailable"
    THEN /\ resp' = Response("seed_products", None, 500, None)
         /\ UNCHANGED <<db, product, order, nextOid, created, seedVars>>
    ELSE LET count == CountDocuments(product)
         IN  IF count > 0
             THEN /\ resp' = Response("seed_products", None, 200, [inserted |-> 0])
                  /\ UNCHANGED <<db, product, order, nextOid, created, seedVars>>
             ELSE /\ product' = InsertMany(product, samples, nextOid)
                  /\ nextOid' = nextOid + Len(samples)
                  /\ resp' = Response("seed_products", None, 200,
                                      [inserted |-> Len(samples)])
                  /\ UNCHANGED <<db, order, created, seedVars>>

\* POST /api/orders
create_order(payload) ==
    IF ~OrderValid(payload)
    THEN /\ resp' = Response("create_order", payload, 422, None)
         /\ UNCHANGED <<db, product, order, nextOid, created, seedVars>>
    ELSE IF db = "Unavailable"
    THEN /\ resp' = Response("create_order", payload, 500, None)
         /\ UNCHANGED <<db, product, order, nextOid, created, seedVars>>
    ELSE /\ Len(order) < MaxOrders
         /\ LET model == OrderModel(payload)
                data == [model EXCEPT !.subtotal = ComputedSubtotal(model.items)]
            IN  order' = InsertOne(order, data, nextOid)
         /\ nextOid' = nextOid + 1
         /\ LET doc == FindOne(order', OidParse(OidToStr(nextOid)))
            IN  resp' = Response("create_order", payload, 201, serialize_doc(doc))
         /\ UNCHANGED <<db, product, created, seedVars>>

\* GET /schema
get_schema ==
    /\ resp' = Response("get_schema", None, 200, <<"user", "product", "order">>)
    /\ UNCHANGED <<db, product, order, nextOid, created, seedVars>>

----------------------------------------------------------------------------
(* seed_products as two store calls, for requests served concurrently *)

\* the availability check and `count = db["product"].count_documents({})`
SeedCount(s) ==
    /\ seedPc[s] = "start"
    /\ IF db = "Unavailable"
       THEN /\ seedPc' = [seedPc EXCEPT ![s] = "failed"]
            /\ UNCHANGED seedCount
       ELSE /\ seedPc' = [seedPc EXCEPT ![s] = "counted"]
            /\ seedCount' = [seedCount EXCEPT ![s] = CountDocuments(product)]
    /\ UNCHANGED <<db, product, order, nextOid, resp, created, seedResult>>

\* `if count > 0: return ...` or `insert_many(samples)` and the return
SeedInsert(s) ==
    /\ seedPc[s] = "counted"
    /\ seedPc' = [seedPc EXCEPT ![s] = "done"]
    /\ IF seedCount[s] > 0
       THEN /\ seedResult' = [seedResult EXCEPT ![s] = 0]
            /\ UNCHANGED <<product, nextOid>>
       ELSE /\ product' = InsertMany(product, samples, nextOid)
            /\ nextOid' = nextOid + Len(samples)
            /\ seedResult' = [seedResult EXCEPT ![s] = Len(samples)]
    /\ UNCHANGED <<db, order, resp, created, seedCount>>

----------------------------------------------------------------------------
(* Specifications *)

ListProducts == \E cq \in ListQueries : list_products(cq[1], cq[2])
GetProduct == \E product_id \in ProductIds : get_product(product_id)
CreateProduct == \E payload \in ProductPayloads : create_product(payload)
SeedProducts == seed_products
CreateOrder == \E payload \in OrderPayloads : create_order(payload)
GetSchema == get_schema

\* requests served one at a time
Next ==
    \/ ListProducts
    \/ GetProduct
    \/ CreateProduct
    \/ SeedProducts
    \/ CreateOrder
    \/ GetSchema

Spec == Init /\ [][Next]_vars

ConcSeedCount == \E s \in Seeders : SeedCount(s)
ConcSeedInsert == \E s \in Seeders : SeedInsert(s)

\* seed requests interleaved at their store calls, with product creation
NextConc ==
    \/ ConcSeedCount
    \/ ConcSeedInsert
    \/ CreateProduct

SpecConc == Init /\ [][NextConc]_vars

----------------------------------------------------------------------------
(* Properties *)

RECURSIVE ItemsTotal(_)
\* the sum over the items of price x quantity
ItemsTotal(items) ==
    IF items = <<>> THEN 0
    ELSE Head(items).price.v * Head(items).quantity.v + ItemsTotal(Tail(items))

LastOrder == order[Len(order)]

\* the order was created with the subtotal recomputed from its items
OrderCreatedWithRecomputedSubtotal ==
    /\ resp.status = 201
    /\ resp.body.subtotal = Round2(ItemsTotal(resp.req.items.v))
    /\ Len(order) >= 1
    /\ OidToStr(LastOrder["_id"]) = resp.body.id
    /\ LastOrder.subtotal = Round2(ItemsTotal(resp.req.items.v))

\* C1 as stated: with the store available, every otherwise valid Order payload,
\* whatever subtotal value the client supplies, is created, and its persisted and
\* returned subtotal is the sum of price x quantity rounded to 2 decimal places.
C1_AnySuppliedSubtotalAccepted ==
    ( /\ resp.op = "create_order"
      /\ db = "Available"
      /\ OrderValidButSubtotal(resp.req)
      /\ IsVal(resp.req.subtotal) )
    => OrderCreatedWithRecomputedSubtotal

\* C1 amended: with the store available, every otherwise valid Order payload
\* whose supplied subtotal is a number >= 0 is created, and its persisted and
\* returned subtotal is the sum of price x quantity rounded to 2 decimal places,
\* whatever the supplied value; a supplied subtotal < 0 is rejected with 422.
C1_SubtotalRecomputed ==
    ( /\ resp.op = "create_order"
      /\ db = "Available"
      /\ OrderValidButSubtotal(resp.req)
      /\ IsVal(resp.req.subtotal) )
    => IF resp.req.subtotal.v >= 0
       THEN OrderCreatedWithRecomputedSubtotal
       ELSE resp.status = 422

C1_Witness ==
    /\ resp.op = "create_order"
    /\ resp.status = 201
    /\ resp.req.items.v # <<>>
    /\ resp.req.subtotal.v # resp.body.subtotal
    /\ ItemsTotal(resp.req.items.v) # resp.body.subtotal

\* the fields of the i-th sample, as stored
SampleStored(i) ==
    /\ product[i].title = samples[i].title
    /\ product[i].description = samples[i].description
    /\ product[i].price = samples[i].price
    /\ product[i].category = samples[i].category
    /\ product[i].image = samples[i].image
    /\ product[i].in_stock = samples[i].in_stock

SeedStep ==
    (resp'.op = "seed_products" /\ db = "Available") =>
        /\ resp'.status = 200
        /\ Len(product) >= 1 => (resp'.body.inserted = 0 /\ product' = product)
        /\ Len(product) = 0 => (resp'.body.inserted = 4 /\ Len(product') = 4)

\* C2: with the store available, a seed request on a non-empty product collection
\* returns inserted = 0 and leaves the collection unchanged, and on an empty
\* collection inserts exactly the 4 samples and returns inserted = 4; after a run
\* of seed requests alone from the empty collection it holds exactly 4 documents.
C2_SeedOnlyWhenEmpty ==
    /\ [][SeedStep]_vars
    /\ []( (db = "Available" /\ created = {} /\ resp.op = "seed_products")
             => (Len(product) = 4 /\ \A i \in 1..4 : SampleStored(i)) )

C2_Witness ==
    /\ resp.op = "seed_products"
    /\ resp.status = 200
    /\ resp.body.inserted = 0
    /\ Len(product) = 4

HexChars ==
    {"0","1","2","3","4","5","6","7","8","9","a","b","c","d","e","f",
     "A","B","C","D","E","F"}

\* the store's identifier format: 24 hexadecimal characters
WellFormedId(s) == Len(s) = 24 /\ \A i \in 1..Len(s) : s[i] \in HexChars

LowerStr(s) == [i \in 1..Len(s) |-> Lower(s[i])]

ProductsWithId(s) == { i \in 1..Len(product) : OidToStr(product[i]["_id"]) = LowerStr(s) }

\* C3: with the store available, GET /api/products/{id} answers 400 exactly when
\* the identifier is not in the store's format, 404 exactly when it is well formed
\* and no product has it, and otherwise 200 with the matching product.
C3_GetProductStatus ==
    (resp.op = "get_product" /\ db = "Available") =>
        /\ resp.status \in {200, 400, 404}
        /\ resp.status = 400 <=> ~WellFormedId(resp.req)
        /\ resp.status = 404 <=> (WellFormedId(resp.req) /\ ProductsWithId(resp.req) = {})
        /\ resp.status = 200 =>
              \E i \in ProductsWithId(resp.req) : resp.body = serialize_doc(product[i])

C3_Witness ==
    /\ resp.op = "get_product"
    /\ resp.status = 200
    /\ resp.req # resp.body.id
    /\ Len(product) >= 2

\* the payloads C4 names with the title or category missing, or the price
\* missing or negative
ProductRejectable(p) ==
    \/ ~IsVal(p.title)
    \/ ~IsVal(p.category)
    \/ ~IsVal(p.price)
    \/ p.price.v < 0

EmptyTitleOrCategory(p) ==
    \/ (IsVal(p.title) /\ p.title.v = <<>>)
    \/ (IsVal(p.category) /\ p.category.v = <<>>)

C5_WritesAlways500 ==
    db = "Unavailable" =>
        /\ resp.op = "list_products" => (resp.status = 200 /\ resp.body = <<>>)
        /\ resp.op \in {"get_product", "create_product", "seed_products", "create_order"}
              => resp.status = 500

\* C5 amended: with the store unavailable, GET /api/products answers an empty
\* sequence with success for every category and q; GET /api/products/{id} and
\* POST /api/products/seed fail with 500; POST /api/products and POST /api/orders
\* fail with 500 when the payload passes schema validation, and with the
\* validation error 422 (a client error) when it does not.
C5_UnavailableStatus ==
    db = "Unavailable" =>
        /\ resp.op = "list_products" => (resp.status = 200 /\ resp.body = <<>>)
        /\ resp.op \in {"get_product", "seed_products"} => resp.status = 500
        /\ resp.op = "create_product" =>
              resp.status = (IF ProductRejectable(resp.req) THEN 422 ELSE 500)
        /\ resp.op = "create_order" =>
              resp.status = (IF OrderValid(resp.req) THEN 500 ELSE 422)
        /\ product = <<>> /\ order = <<>>

C5_Witness ==
    /\ db = "Unavailable"
    /\ resp.op = "get_product"
    /\ resp.status = 500
    /\ ~WellFormedId(resp.req)

\* the product fields of a fetched document equal the payload, defaults filled in
FieldsEqualInput(body, p) ==
    /\ body.title = p.title.v
    /\ body.price = p.price.v
    /\ body.category = p.category.v
    /\ body.description = (IF IsVal(p.description) THEN p.description ELSE Null)
    /\ body.image = (IF IsVal(p.image) THEN p.image ELSE Null)
    /\ body.in_stock = (IF IsVal(p.in_stock) THEN p.in_stock.v ELSE TRUE)

\* C6: for every valid Product payload answered 201 by POST /api/products, the
\* returned id is a non-empty string and GET /api/products/{id} with it succeeds
\* with the product fields equal to the input, omitted optional fields at their
\* defaults, whatever create, seed or order requests ran since.
C6_CreateThenFetch ==
    \A c \in created :
        /\ c.id # <<>>
        /\ GetProductResult(c.id).status = 200
        /\ GetProductResult(c.id).body.id = c.id
        /\ FieldsEqualInput(GetProductResult(c.id).body, c.payload)

C6_Witness ==
    /\ resp.op = "get_product"
    /\ resp.status = 200
    /\ order # <<>>
    /\ Cardinality(created) >= 2
    /\ \E c \in created :
          /\ c.id = resp.req
          /\ ~IsVal(c.payload.description)
          /\ product[Len(product)]["_id"] # OidParse(c.id)
          /\ LastOrder["_id"] > OidParse(c.id)

\* C7: with the store available, POST /api/orders with an otherwise valid payload
\* whose items sequence is empty succeeds and persists an order of subtotal 0.0.
C7_EmptyItemsAccepted ==
    ( /\ resp.op = "create_order"
      /\ db = "Available"
      /\ RequiredStr(resp.req.customer_name)
      /\ EmailValid(resp.req.customer_email)
      /\ RequiredStr(resp.req.shipping_address)
      /\ RequiredNonNegFloat(resp.req.subtotal)
      /\ IsVal(resp.req.items)
      /\ resp.req.items.v = <<>> )
    => /\ resp.status = 201
       /\ resp.body.subtotal = 0
       /\ resp.body.items = <<>>
       /\ Len(order) >= 1
       /\ OidToStr(LastOrder["_id"]) = resp.body.id
       /\ LastOrder.subtotal = 0

C7_Witness ==
    /\ resp.op = "create_order"
    /\ resp.status = 201
    /\ resp.body.items = <<>>
    /\ resp.req.subtotal.v > 0

\* q occurs in text as a substring, compared case-insensitively
SubstringCI(q, text) ==
    \E off \in 0..(Len(text) - Len(q)) :
        \A i \in 1..Len(q) : Lower(q[i]) = Lower(text[off + i])

\* the products C8 expects for (category, q)
ListExpected(category, q, doc) ==
    /\ (IsVal(category) /\ category.v # <<>>) => doc.category = category.v
    /\ \/ SubstringCI(q.v, doc.title)
       \/ (IsVal(doc.description) /\ SubstringCI(q.v, doc.description.v))
       \/ SubstringCI(q.v, doc.category)

\* C8 as stated: with the store available, GET /api/products with a free-text
\* term q returns exactly the stored products in which q occurs, compared
\* case-insensitively, as a substring of the title, the description or the
\* category (and whose category equals `category` when given), and an empty
\* sequence, never an error, when q matches no product.
C8_LiteralSubstringSearch ==
    ( /\ resp.op = "list_products"
      /\ db = "Available"
      /\ IsVal(resp.req[2])
      /\ resp.req[2].v # <<>> )
    => /\ resp.status = 200
       /\ LET hits == SelectSeq(product,
                        LAMBDA d : ListExpected(resp.req[1], resp.req[2], d))
          IN  resp.body = [i \in 1..Len(hits) |-> serialize_doc(hits[i])]

\* C9 as stated: under every interleaving of concurrent seed requests (count read
\* and bulk insert being separate store calls) with product creation requests,
\* at most one seed request reports inserted = 4 and the collection never holds
\* more than one copy of the 4 samples.
C9_AtMostOneSeedInserts ==
    /\ Cardinality({ s \in Seeders : seedResult[s] = 4 }) <= 1
    /\ \A k \in 1..Len(samples) :
          Cardinality({ i \in 1..Len(product) : product[i].title = samples[k].title }) <= 1

AllIds ==
    { product[i]["_id"] : i \in 1..Len(product) } \cup { order[i]["_id"] : i \in 1..Len(order) }

IsPrefix(s, t) == Len(s) <= Len(t) /\ \A i \in 1..Len(s) : t[i] = s[i]

\* C10: in every reachable state the documents of the product and order
\* collections have pairwise distinct identifiers, and no request changes the
\* identifier or any field of, or removes, a stored document: the collections
\* only grow.
C10_IdsDistinctDocsImmutable ==
    /\ [](Cardinality(AllIds) = Len(product) + Len(order))
    /\ [][IsPrefix(product, product') /\ IsPrefix(order, order')]_vars

C10_Witness ==
    /\ Len(product) >= 6
    /\ Len(order) >= 1
    /\ order[1]["_id"] < product[Len(product)]["_id"]
    /\ resp.op = "get_schema"

====
